---- MODULE Spec2Model ----
(***************************************************************************)
(* A model of shumway (src/shumway/__init__.py): the Meter / Counter /     *)
(* Timer objects, the MetricRelay registry and the UDP and HTTP senders.   *)
(*                                                                         *)
(* Python values are encoded as follows.  An optional value (None or a     *)
(* value) is a set with at most one element: None is {} and a value v is   *)
(* Some(v) = {v}.  A dict is a function; dict.update is Update.  The       *)
(* registry, an insertion-ordered dict, is a sequence of [k, m] entries    *)
(* with distinct keys k, m being the identity of the registered object.    *)
(* Objects live in heap, a sequence indexed by object identity.            *)
(***************************************************************************)
EXTENDS Integers, Sequences, FiniteSets, TLC

VARIABLES
    pc,          \* "new" before MetricRelay(...) is called, then "ready" or "failed"
    relay,       \* None, or Some of the MetricRelay object's fields
    sockets,     \* number of socket.socket(...) calls made so far
    heap,        \* the Meter/Counter/Timer objects, by identity
    ctor,        \* history: the (what, attributes) each object was constructed with
    inscope,     \* the Timer objects whose `with` block is being executed
    registered,  \* history: the logical names passed to incr/timer/set_counter/set_timer
    call,        \* the name of the last operation called
    ret,         \* what the last operation returned
    exc,         \* the exception the last operation raised ("None" when it returned)
    sent,        \* the datagrams the last operation passed to sock.sendto, in order
    posts        \* the requests the last operation passed to requests.post, in order

vars == <<pc, relay, sockets, heap, ctor, inscope, registered, call, ret, exc, sent, posts>>

----------------------------------------------------------------------------
(* Bounds of the model *)

MaxObjs == 2
MaxValue == 2
MaxTime == 1

(* Program constants *)

FFWD_IP == "127.0.0.1"
FFWD_PORT == 19000
GIGA_UNIT == 1000000000

----------------------------------------------------------------------------
(* Python values *)

None == {}
Some(v) == {v}
The(o) == CHOOSE v \in o : TRUE

EmptyDict == <<>>

\* dict.update: the keys of e win
Update(d, e) == [k \in DOMAIN d \cup DOMAIN e |-> IF k \in DOMAIN e THEN e[k] ELSE d[k]]

----------------------------------------------------------------------------
(* The inputs the callers draw from *)

Names == {"a", "timer-a"}
AttrArgs == {None, Some([foo |-> "bar", what |-> "other", unit |-> "s"])}
\* the relay's default attributes and resources, drawn together
Defaults == {<<None, None>>,
             <<Some([foo |-> "bar", what |-> "other", unit |-> "s"]), Some([res1 |-> "value"])>>}
HostArgs == {None, Some("127.0.0.1")}
IpArgs == {None, Some("127.0.0.1")}
\* the names timer and set_timer are called with
TimerNames == {"a"}
Amounts == {1, -1}
Values == 0..MaxValue
Times == 0..MaxTime

----------------------------------------------------------------------------
(* Meter, Counter, Timer *)

MeterInit(what, key, attributes, resources, tags, value) ==
    [cls        |-> "Meter",
     value      |-> Some(value),
     key        |-> key,
     attributes |-> IF attributes # None
                    THEN Update([what |-> what], The(attributes))
                    ELSE [what |-> what],
     resources  |-> IF resources # None
                    THEN Update(EmptyDict, The(resources))
                    ELSE EmptyDict,
     tags       |-> IF tags = None THEN <<>> ELSE The(tags)]

CounterInit(what, key, attributes, resources, tags, value) ==
    [MeterInit(what, key, attributes, resources, tags, value) EXCEPT !.cls = "Counter"]

\* a Timer has one more field, _start
TimerInit(what, key, attributes, resources, tags) ==
    [MeterInit(what, key, attributes, resources, tags, 0) EXCEPT
        !.cls = "Timer",
        !.attributes = Update(@, [unit |-> "ns"]),
        !.value = None]
    @@ [start |-> None]

\* Meter.update
MeterUpdate(m, value) == [m EXCEPT !.value = value]

as_dict(m) ==
    [key        |-> m.key,
     attributes |-> m.attributes,
     value      |-> m.value,
     type       |-> "metric",
     tags       |-> m.tags,
     resources  |-> m.resources]

\* mutants of Counter.incr: the amount is ignored; the amount is subtracted
CounterIncrByOne(m, value) == MeterUpdate(m, Some(The(m.value) + 1))
CounterIncrSubtracts(m, value) == MeterUpdate(m, Some(The(m.value) - value))

\* Counter.incr
CounterIncr(m, value) == MeterUpdate(m, Some(The(m.value) + value))

\* Timer.__enter__
TimerEnter(m, now) == [m EXCEPT !.start = Some(now)]

\* Timer.__exit__: the new state of the timer
TimerExit(m, now) == MeterUpdate(m, Some((now - The(m.start)) * GIGA_UNIT))

\* mutant of Timer.__exit__: it returns True
TimerExitReturnsTrue == Some(TRUE)

\* Timer.__exit__: its return value (a true value would suppress the exception)
TimerExitReturn == None

Truthy(v) == v # None /\ v # Some(FALSE)

----------------------------------------------------------------------------
(* Senders *)

JsonDumps(d) == [json |-> d]
EncodeUtf8(s) == [utf8 |-> s]

\* host.startswith("http"), over the hosts of HostArgs and IpArgs
startswith_http(host) == host \in {"http://127.0.0.1", "https://127.0.0.1"}

UDPSenderInit(ffwd_host, ffwd_port) ==
    [kind |-> "UDP", ffwd_address |-> <<ffwd_host, ffwd_port>>]

HTTPSenderInit(ffwd_host, ffwd_port, ffwd_path) ==
    LET host == IF ~startswith_http(ffwd_host) /\ ffwd_port = 443
                THEN "https://" \o ffwd_host
                ELSE IF ~startswith_http(ffwd_host)
                     THEN "http://" \o ffwd_host
                     ELSE ffwd_host
        url  == host \o ":" \o ToString(ffwd_port)
    IN  [kind |-> "HTTP",
         ffwd_url |-> IF ffwd_path # None THEN url \o The(ffwd_path) ELSE url]

\* mutant of _UDPSender.send: a metric without a value is skipped
UDPSendSkipsUnset(sender, metrics) ==
    LET datagram(m) == [data |-> EncodeUtf8(JsonDumps(as_dict(m))),
                        addr |-> sender.ffwd_address]
        kept == SelectSeq(metrics, LAMBDA m : m.value # None)
    IN  [i \in 1..Len(kept) |-> datagram(kept[i])]

\* _UDPSender.send: one sendto per metric, in the dict's order
UDPSend(sender, metrics) ==
    [i \in 1..Len(metrics) |->
        [data |-> EncodeUtf8(JsonDumps(as_dict(metrics[i]))),
         addr |-> sender.ffwd_address]]

convert_metric_to_http_payload(metric, now) ==
    LET metrics_as_dict == as_dict(metric)
    IN  [key       |-> metrics_as_dict.key,
         tags      |-> metrics_as_dict.attributes,
         resource  |-> metrics_as_dict.resources,
         value     |-> metrics_as_dict.value,
         timestamp |-> now * 1000]

\* _HTTPSender.send: one post carrying every metric
HTTPSend(sender, metrics, now) ==
    <<[url  |-> sender.ffwd_url,
       json |-> [points |-> [i \in 1..Len(metrics) |->
                                convert_metric_to_http_payload(metrics[i], now)]]]>>

----------------------------------------------------------------------------
(* The registry: MetricRelay._metrics *)

Has(ms, k) == \E i \in 1..Len(ms) : ms[i].k = k
Get(ms, k) == ms[CHOOSE i \in 1..Len(ms) : ms[i].k = k].m
Put(ms, k, o) ==
    IF Has(ms, k)
    THEN [i \in 1..Len(ms) |-> IF ms[i].k = k THEN [k |-> k, m |-> o] ELSE ms[i]]
    ELSE Append(ms, [k |-> k, m |-> o])

\* six.itervalues(self._metrics)
itervalues(ms, h) == [i \in 1..Len(ms) |-> h[ms[i].m]]

timer_metric(metric) == "timer-" \o metric

----------------------------------------------------------------------------
(* MetricRelay.__init__: the exception raised, the object built and the    *)
(* sockets opened.                                                         *)

\* mutant of the constructor's validation: `or` for `and`
HostConflictEitherOne(ffwd_host, ffwd_ip) == ffwd_host # None \/ ffwd_ip # None

\* the constructor's validation: both ffwd_host and ffwd_ip are set
HostConflict(ffwd_host, ffwd_ip) == ffwd_host # None /\ ffwd_ip # None

RelayInit(default_key, ffwd_host, ffwd_ip, ffwd_port, ffwd_path, default_attributes, default_resources, use_http) ==
    IF HostConflict(ffwd_host, ffwd_ip)
    THEN [exc |-> "ValueError", relay |-> None, sockets |-> 0]
    ELSE LET host == IF ffwd_host # None THEN The(ffwd_host)
                     ELSE IF ffwd_ip # None THEN The(ffwd_ip)
                     ELSE FFWD_IP
             fields == [metrics            |-> <<>>,
                        default_key        |-> default_key,
                        default_attributes |-> default_attributes,
                        default_resources  |-> default_resources]
         IN  IF use_http
             THEN IF ffwd_host = None
                  \* None.startswith: the object is never returned
                  THEN [exc |-> "AttributeError", relay |-> None, sockets |-> 0]
                  ELSE [exc     |-> "None",
                        relay   |-> Some(fields @@ [sender |->
                                     HTTPSenderInit(The(ffwd_host), ffwd_port, ffwd_path)]),
                        sockets |-> 0]
             ELSE [exc     |-> "None",
                   relay   |-> Some(fields @@ [sender |-> UDPSenderInit(host, ffwd_port)]),
                   sockets |-> 1]

Init ==
    /\ pc = "new"
    /\ relay = None
    /\ sockets = 0
    /\ heap = <<>>
    /\ ctor = <<>>
    /\ inscope = {}
    /\ registered = {}
    /\ call = "none"
    /\ ret = None
    /\ exc = "None"
    /\ sent = <<>>
    /\ posts = <<>>

Construct(ffwd_host, ffwd_ip, default_attributes, default_resources, use_http) ==
    /\ pc = "new"
    /\ call' = "MetricRelay"
    /\ LET r == RelayInit("key", ffwd_host, ffwd_ip, FFWD_PORT, None,
                          default_attributes, default_resources, use_http)
       IN  /\ pc' = IF r.exc = "None" THEN "ready" ELSE "failed"
           /\ relay' = r.relay
           /\ sockets' = sockets + r.sockets
           /\ exc' = r.exc
    /\ ret' = None
    /\ sent' = <<>>
    /\ posts' = <<>>
    /\ UNCHANGED <<heap, ctor, inscope, registered>>

----------------------------------------------------------------------------
(* MetricRelay methods, as functions of the relay r and the heap h *)

\* self._sender.send(metrics), for either sender; ok is the HTTP response's status
Send(sender, metrics, now, ok) ==
    IF sender.kind = "UDP"
    THEN [sent |-> UDPSend(sender, metrics), posts |-> <<>>, exc |-> "None"]
    ELSE [sent  |-> <<>>,
          posts |-> HTTPSend(sender, metrics, now),
          \* raise_for_status
          exc   |-> IF ok THEN "None" ELSE "HTTPError"]

\* MetricRelay.incr
RelayIncr(r, h, metric, value) ==
    LET found == Has(r.metrics, metric)
        o  == IF found THEN Get(r.metrics, metric) ELSE Len(h) + 1
        h1 == IF found THEN h
              ELSE Append(h, CounterInit(metric, r.default_key, r.default_attributes,
                                         r.default_resources, None, 0))
        r1 == IF found THEN r ELSE [r EXCEPT !.metrics = Put(@, metric, o)]
    IN  IF h1[o].cls = "Counter"
        THEN [relay |-> r1, heap |-> [h1 EXCEPT ![o] = CounterIncr(@, value)],
              obj |-> o, exc |-> "None"]
        \* only Counter has an incr method
        ELSE [relay |-> r1, heap |-> h1, obj |-> o, exc |-> "AttributeError"]

\* MetricRelay.timer
RelayTimer(r, h, metric) ==
    LET key   == timer_metric(metric)
        found == Has(r.metrics, key)
        o  == IF found THEN Get(r.metrics, key) ELSE Len(h) + 1
    IN  IF found
        THEN [relay |-> r, heap |-> h, ret |-> o]
        ELSE [relay |-> [r EXCEPT !.metrics = Put(@, key, o)],
              heap  |-> Append(h, TimerInit(metric, r.default_key, r.default_attributes,
                                            r.default_resources, None)),
              ret   |-> o]

\* MetricRelay.set_counter
RelaySetCounter(r, metric, counter) == [r EXCEPT !.metrics = Put(@, metric, counter)]

\* MetricRelay.set_timer
RelaySetTimer(r, metric, timer) ==
    [r EXCEPT !.metrics = Put(@, timer_metric(metric), timer)]

\* MetricRelay.__contains__
RelayContains(r, metric) == Has(r.metrics, metric)

\* mutant of MetricRelay.flush: the registry is emptied once it is sent
RelayFlushClears(r, h, now, ok) ==
    [relay |-> [r EXCEPT !.metrics = <<>>], heap |-> h,
     out |-> Send(r.sender, itervalues(r.metrics, h), now, ok)]

\* MetricRelay.flush: what is sent, and the relay and the heap it leaves
RelayFlush(r, h, now, ok) ==
    [relay |-> r, heap |-> h, out |-> Send(r.sender, itervalues(r.metrics, h), now, ok)]

\* MetricRelay.emit: the metric is built, sent alone and dropped
RelayEmit(r, metric, value, attributes, resources, tags, now, ok) ==
    LET one_time_metric == MeterInit(metric, r.default_key, attributes, resources,
                                     tags, value)
    IN  Send(r.sender, <<one_time_metric>>, now, ok)

----------------------------------------------------------------------------
(* Actions: one per call the application makes *)

Quiet == sent' = <<>> /\ posts' = <<>>

\* Counter(what, 'key', attributes, value=value)
NewCounter(what, attributes, value) ==
    /\ pc = "ready"
    /\ call' = "Counter"
    /\ Len(heap) < MaxObjs
    /\ heap' = Append(heap, CounterInit(what, "key", attributes, None, None, value))
    /\ ctor' = Append(ctor, [what |-> what, attributes |-> attributes])
    /\ ret' = Some(Len(heap) + 1)
    /\ exc' = "None"
    /\ Quiet
    /\ UNCHANGED <<pc, relay, sockets, inscope, registered>>

\* Timer(what, 'key', attributes)
NewTimer(what, attributes) ==
    /\ pc = "ready"
    /\ call' = "Timer"
    /\ Len(heap) < MaxObjs
    /\ heap' = Append(heap, TimerInit(what, "key", attributes, None, None))
    /\ ctor' = Append(ctor, [what |-> what, attributes |-> attributes])
    /\ ret' = Some(Len(heap) + 1)
    /\ exc' = "None"
    /\ Quiet
    /\ UNCHANGED <<pc, relay, sockets, inscope, registered>>

\* counter.incr(value), on a Counter the caller holds
Incr(o, value) ==
    /\ pc = "ready"
    /\ call' = "Counter.incr"
    /\ o \in 1..Len(heap)
    /\ heap[o].cls = "Counter"
    /\ The(heap[o].value) + value \in Values
    /\ heap' = [heap EXCEPT ![o] = CounterIncr(@, value)]
    /\ ret' = None
    /\ exc' = "None"
    /\ Quiet
    /\ UNCHANGED <<pc, relay, sockets, ctor, inscope, registered>>

\* counter.update(value), on a Counter the caller holds
Update_(o, value) ==
    /\ pc = "ready"
    /\ call' = "Counter.update"
    /\ o \in 1..Len(heap)
    /\ heap[o].cls = "Counter"
    /\ heap' = [heap EXCEPT ![o] = MeterUpdate(@, Some(value))]
    /\ ret' = None
    /\ exc' = "None"
    /\ Quiet
    /\ UNCHANGED <<pc, relay, sockets, ctor, inscope, registered>>

\* `with timer:` is entered; time.time() returns now
Enter(o, now) ==
    /\ pc = "ready"
    /\ call' = "Timer.__enter__"
    /\ o \in 1..Len(heap)
    /\ heap[o].cls = "Timer"
    /\ o \notin inscope
    /\ heap' = [heap EXCEPT ![o] = TimerEnter(@, now)]
    /\ inscope' = inscope \cup {o}
    /\ ret' = Some(o)
    /\ exc' = "None"
    /\ Quiet
    /\ UNCHANGED <<pc, relay, sockets, ctor, registered>>

\* the body of `with timer:` ends, normally or by raising; time.time() returns
\* now; the exception goes on to the caller unless __exit__ returns a true value
Exit(o, now, raised) ==
    /\ pc = "ready"
    /\ call' = "Timer.__exit__"
    /\ o \in inscope
    /\ heap' = [heap EXCEPT ![o] = TimerExit(@, now)]
    /\ inscope' = inscope \ {o}
    /\ ret' = TimerExitReturn
    /\ exc' = IF raised /\ ~Truthy(TimerExitReturn) THEN "BodyError" ELSE "None"
    /\ Quiet
    /\ UNCHANGED <<pc, relay, sockets, ctor, registered>>

\* relay.incr(metric, value)
DoIncr(metric, value) ==
    /\ pc = "ready"
    /\ call' = "incr"
    /\ LET r == RelayIncr(The(relay), heap, metric, value)
       IN  /\ Len(r.heap) <= MaxObjs
           /\ r.heap[r.obj].value # None => The(r.heap[r.obj].value) \in Values
           /\ relay' = Some(r.relay)
           /\ heap' = r.heap
           /\ ctor' = IF Len(r.heap) > Len(heap)
                      THEN Append(ctor, [what |-> metric,
                                         attributes |-> The(relay).default_attributes])
                      ELSE ctor
           /\ exc' = r.exc
    /\ registered' = registered \cup {metric}
    /\ ret' = None
    /\ Quiet
    /\ UNCHANGED <<pc, sockets, inscope>>

\* relay.timer(metric)
DoTimer(metric) ==
    /\ pc = "ready"
    /\ call' = "timer"
    /\ LET r == RelayTimer(The(relay), heap, metric)
       IN  /\ Len(r.heap) <= MaxObjs
           /\ relay' = Some(r.relay)
           /\ heap' = r.heap
           /\ ctor' = IF Len(r.heap) > Len(heap)
                      THEN Append(ctor, [what |-> metric,
                                         attributes |-> The(relay).default_attributes])
                      ELSE ctor
           /\ ret' = Some(r.ret)
    /\ registered' = registered \cup {metric}
    /\ exc' = "None"
    /\ Quiet
    /\ UNCHANGED <<pc, sockets, inscope>>

\* relay.set_counter(metric, counter), with a Counter the caller holds
DoSetCounter(metric, o) ==
    /\ pc = "ready"
    /\ call' = "set_counter"
    /\ o \in 1..Len(heap)
    /\ heap[o].cls = "Counter"
    /\ relay' = Some(RelaySetCounter(The(relay), metric, o))
    /\ registered' = registered \cup {metric}
    /\ ret' = None
    /\ exc' = "None"
    /\ Quiet
    /\ UNCHANGED <<pc, sockets, heap, ctor, inscope>>

\* relay.set_timer(metric, timer), with a Timer the caller holds
DoSetTimer(metric, o) ==
    /\ pc = "ready"
    /\ call' = "set_timer"
    /\ o \in 1..Len(heap)
    /\ heap[o].cls = "Timer"
    /\ relay' = Some(RelaySetTimer(The(relay), metric, o))
    /\ registered' = registered \cup {metric}
    /\ ret' = None
    /\ exc' = "None"
    /\ Quiet
    /\ UNCHANGED <<pc, sockets, heap, ctor, inscope>>

\* metric in relay
DoContains(metric) ==
    /\ pc = "ready"
    /\ call' = "contains"
    /\ ret' = Some(RelayContains(The(relay), metric))
    /\ exc' = "None"
    /\ Quiet
    /\ UNCHANGED <<pc, relay, sockets, heap, ctor, inscope, registered>>

\* relay.flush(); time.time() returns now and the collector answers ok or not
DoFlush(now, ok) ==
    /\ pc = "ready"
    /\ call' = "flush"
    /\ LET r == RelayFlush(The(relay), heap, now, ok)
       IN  /\ relay' = Some(r.relay)
           /\ heap' = r.heap
           /\ sent' = r.out.sent
           /\ posts' = r.out.posts
           /\ exc' = r.out.exc
    /\ ret' = None
    /\ UNCHANGED <<pc, sockets, ctor, inscope, registered>>

\* relay.emit(metric, value, attributes=attributes)
DoEmit(metric, value, attributes, now, ok) ==
    /\ pc = "ready"
    /\ call' = "emit"
    /\ LET r == RelayEmit(The(relay), metric, value, attributes, None, None, now, ok)
       IN  /\ sent' = r.sent
           /\ posts' = r.posts
           /\ exc' = r.exc
    /\ ret' = None
    /\ UNCHANGED <<pc, relay, sockets, heap, ctor, inscope, registered>>

Objs == 1..MaxObjs

Next ==
    \/ \E h \in HostArgs, ip \in IpArgs, d \in Defaults, u \in BOOLEAN :
            Construct(h, ip, d[1], d[2], u)
    \/ \E v \in {0, 1} : NewCounter("a", None, v)
    \/ NewTimer("a", None)
    \/ \E o \in Objs, a \in Amounts : Incr(o, a)
    \/ \E o \in Objs, v \in 0..MaxValue : Update_(o, v)
    \/ \E o \in Objs, t \in Times : Enter(o, t)
    \/ \E o \in Objs, t \in Times, raised \in BOOLEAN : Exit(o, t, raised)
    \/ \E n \in Names, a \in Amounts : DoIncr(n, a)
    \/ \E n \in TimerNames : DoTimer(n)
    \/ \E n \in Names, o \in Objs : DoSetCounter(n, o)
    \/ \E n \in TimerNames, o \in Objs : DoSetTimer(n, o)
    \/ \E n \in Names : DoContains(n)
    \/ \E t \in Times, ok \in BOOLEAN : DoFlush(t, ok)
    \/ \E a \in AttrArgs, ok \in BOOLEAN : DoEmit("a", 1, a, 0, ok)

Spec == Init /\ [][Next]_vars

\* The relay driven by incr, timer, flush and `in` alone
NextIncrTimer ==
    \/ \E h \in HostArgs, ip \in IpArgs, d \in Defaults, u \in BOOLEAN :
            Construct(h, ip, d[1], d[2], u)
    \/ \E n \in Names, a \in Amounts : DoIncr(n, a)
    \/ \E n \in TimerNames : DoTimer(n)
    \/ \E n \in Names : DoContains(n)
    \/ \E t \in Times, ok \in BOOLEAN : DoFlush(t, ok)

SpecIncrTimer == Init /\ [][NextIncrTimer]_vars

----------------------------------------------------------------------------
(* Helpers of the properties *)

Registry == The(relay).metrics
Entry(i) == heap[Registry[i].m]
IsCounter(o) == o \in 1..Len(heap) /\ heap[o].cls = "Counter"
IsTimer(o) == o \in 1..Len(heap) /\ heap[o].cls = "Timer"

\* what a collector reads off the datagrams s or the posts p, timestamps aside
Observations(s, p) ==
    IF p = <<>>
    THEN [i \in 1..Len(s) |->
            [key |-> s[i].data.utf8.json.key, value |-> s[i].data.utf8.json.value,
             attributes |-> s[i].data.utf8.json.attributes,
             resources |-> s[i].data.utf8.json.resources]]
    ELSE [i \in 1..Len(p[1].json.points) |->
            [key |-> p[1].json.points[i].key, value |-> p[1].json.points[i].value,
             attributes |-> p[1].json.points[i].tags,
             resources |-> p[1].json.points[i].resource]]

----------------------------------------------------------------------------
(* C1: flush() removes no registry entry and changes no Counter or Timer;  *)
(* a flush that directly follows a flush dispatches the same metrics with  *)
(* the same values; an incr(name, a) that follows a flush adds a to the    *)
(* value the counter had before the flush.                                 *)
C1_FlushKeepsRegistryAndValues ==
    [][/\ call' = "flush" => /\ relay' = relay
                             /\ heap' = heap
                             /\ call = "flush" =>
                                    Observations(sent, posts)' = Observations(sent, posts)
       /\ \A n \in Names, a \in Amounts :
            (call = "flush" /\ DoIncr(n, a) /\ Has(Registry, n)
                /\ IsCounter(Get(Registry, n)))
            => heap'[Get(Registry, n)].value
                    = Some(The(heap[Get(Registry, n)].value) + a)]_vars

\* a flush of a registry holding a counter at 2 and a measured timer
C1_Witness ==
    /\ call = "flush"
    /\ Len(Registry) = 2
    /\ \E i, j \in 1..Len(Registry) :
            /\ IsCounter(Registry[i].m) /\ Entry(i).value = Some(2)
            /\ IsTimer(Registry[j].m) /\ Entry(j).value = Some(1000000000)

(* C2: flush() dispatches every registered metric exactly once and nothing *)
(* else: over UDP one datagram per registry entry, carrying the entry's    *)
(* current payload, and no post; over HTTP one post whose points list has  *)
(* one point per registry entry, and no datagram.                          *)
C2_FlushSendsEveryMetricOnce ==
    call = "flush" =>
        IF The(relay).sender.kind = "UDP"
        THEN /\ posts = <<>>
             /\ Len(sent) = Len(Registry)
             /\ \A i \in 1..Len(Registry) :
                    /\ sent[i].addr = The(relay).sender.ffwd_address
                    /\ sent[i].data.utf8.json =
                         [key |-> Entry(i).key, attributes |-> Entry(i).attributes,
                          value |-> Entry(i).value, type |-> "metric",
                          tags |-> Entry(i).tags, resources |-> Entry(i).resources]
        ELSE /\ sent = <<>>
             /\ Len(posts) = 1
             /\ posts[1].url = The(relay).sender.ffwd_url
             /\ Len(posts[1].json.points) = Len(Registry)
             /\ \A i \in 1..Len(Registry) :
                    /\ posts[1].json.points[i].key = Entry(i).key
                    /\ posts[1].json.points[i].tags = Entry(i).attributes
                    /\ posts[1].json.points[i].resource = Entry(i).resources
                    /\ posts[1].json.points[i].value = Entry(i).value

\* two entries flushed over UDP, one of them a counter incremented to 2
C2_Witness ==
    /\ call = "flush"
    /\ The(relay).sender.kind = "UDP"
    /\ Len(sent) = 2
    /\ \E i \in 1..2 : sent[i].data.utf8.json.value = Some(2)

(* C3: every Counter.incr(a) adds a to the counter's value, so that a      *)
(* sequence of incr calls leaves the initial value plus the sum of the     *)
(* amounts; relay.incr(name, a) on an unregistered name registers a new    *)
(* Counter whose value is 0 + a.                                           *)
C3_IncrAddsAmount ==
    [][/\ \A o \in Objs, a \in Amounts :
            Incr(o, a) => heap'[o].value = Some(The(heap[o].value) + a)
       /\ \A n \in Names, a \in Amounts :
            DoIncr(n, a) =>
                IF Has(Registry, n)
                THEN IsCounter(Get(Registry, n)) =>
                        heap'[Get(Registry, n)].value
                            = Some(The(heap[Get(Registry, n)].value) + a)
                ELSE /\ Has(Registry', n)
                     /\ Get(Registry', n) = Len(heap) + 1
                     /\ Len(heap') = Len(heap) + 1
                     /\ heap'[Len(heap) + 1].cls = "Counter"
                     /\ heap'[Len(heap) + 1].value = Some(0 + a)]_vars

\* relay.incr has brought a counter it created to 2
C3_Witness ==
    /\ call = "incr"
    /\ exc = "None"
    /\ \E i \in 1..Len(Registry) :
            IsCounter(Registry[i].m) /\ Entry(i).value = Some(2)

(* C4: a metric constructed with logical name w and attributes M has       *)
(* attributes['what'] = w, also when M has the key 'what', and every other *)
(* key of M with M's value; so has the payload emit sends.                 *)
C4_WhatNeverOverridden ==
    /\ \A o \in 1..Len(heap) :
            /\ heap[o].attributes.what = ctor[o].what
            /\ ctor[o].attributes # None =>
                \A k \in DOMAIN The(ctor[o].attributes) \ {"what"} :
                    heap[o].attributes[k] = The(ctor[o].attributes)[k]
    /\ call = "emit" =>
            \A i \in 1..Len(Observations(sent, posts)) :
                Observations(sent, posts)[i].attributes.what = "a"

(* C5: `name in relay` is true exactly when incr(name), timer(name),       *)
(* set_counter(name, ..) or set_timer(name, ..) has been called.           *)
C5_ContainsIffRegistered ==
    [][\A n \in Names : DoContains(n) => ret' = Some(n \in registered)]_vars

C7_TimerLookUpOrCreate ==
    [][\A n \in TimerNames :
        /\ DoTimer(n) =>
            /\ heap'[The(ret')].cls = "Timer"
            /\ Get(Registry', timer_metric(n)) = The(ret')
            /\ Has(Registry, timer_metric(n)) =>
                    /\ The(ret') = Get(Registry, timer_metric(n))
                    /\ Registry' = Registry /\ heap' = heap
            /\ ~Has(Registry, timer_metric(n)) =>
                    /\ Len(heap') = Len(heap) + 1
                    /\ Len(Registry') = Len(Registry) + 1
                    /\ heap'[The(ret')].key = The(relay).default_key
        /\ (pc = "ready" /\ Has(Registry, timer_metric(n)) /\ call' # "set_timer") =>
                Get(Registry', timer_metric(n)) = Get(Registry, timer_metric(n))]_vars

(* C8: MetricRelay(...) with both ffwd_host and ffwd_ip raises ValueError, *)
(* for either transport, with no socket opened and no relay (registry,     *)
(* sender, URL) built; with at most one of them it raises no ValueError.   *)
C8_BothHostsIsConfigurationError ==
    [][\A h \in HostArgs, ip \in IpArgs, d \in Defaults, u \in BOOLEAN :
        Construct(h, ip, d[1], d[2], u) =>
            IF h # None /\ ip # None
            THEN exc' = "ValueError" /\ relay' = None /\ sockets' = 0 /\ pc' = "failed"
            ELSE exc' # "ValueError"]_vars

\* the constructor has refused a host together with an ip
C8_Witness == call = "MetricRelay" /\ exc = "ValueError" /\ pc = "failed"

NegativeIncr ==
    \E a \in Amounts :
        /\ a < 0
        /\ \/ \E o \in Objs : Incr(o, a)
           \/ \E n \in Names : DoIncr(n, a)

C10_CountersAndTimersNeverCollide ==
    /\ call = "incr" => exc = "None"
    /\ call = "timer" => IsTimer(The(ret))
====
